---- MODULE Spec2Model ----
(***************************************************************************)
(* Model of the choropleth viewer of topographie_project: the temperature  *)
(* page (static/main_temp.js, getColorTemp, prefix "temp_") and the        *)
(* precipitation page (the second script: getColor, prefix "precip_", an   *)
(* extra layer of cities).  The variable `variant` says which of the two   *)
(* scripts runs; everything else is the script's module state and the DOM  *)
(* it writes.                                                              *)
(*                                                                         *)
(* JavaScript values are records tagged by `t`.  Finite numbers are exact  *)
(* rationals n/d (d > 0, lowest terms): the scripts compute in IEEE        *)
(* doubles, whose rounding is monotone and exact on the small integers and *)
(* fifths used here.                                                       *)
(***************************************************************************)
EXTENDS Integers, Sequences, FiniteSets, TLC

VARIABLES
  variant,       \* "temp" (main_temp.js) or "precip" (second script)
  pc,            \* position of the async DOMContentLoaded handler
  monthsMeta,    \* let monthsMeta
  regionsData,   \* const regionsData of initMap (captured by the layer)
  villesData,    \* const villesData of initMap (precipitation page)
  globalStats,   \* let globalStats = null
  currentMonth,  \* let currentMonth = 1
  regionsLayer,  \* let regionsLayer: the style of each region feature
  villesLayer,   \* let villesLayer: whether the city layer is on the map
  chart,         \* let chart: the Chart.js instance (labels, data, label)
  sliderBound,   \* DOM: #monthRange has its "input" listener
  monthLabel,    \* DOM: #monthLabel .textContent
  legend,        \* DOM: children of #legend-scale
  infoTitle,     \* DOM: #info-title .textContent
  infoSubtitle,  \* DOM: #info-subtitle .textContent
  thrown,        \* the last uncaught exception of a handler ("none")
  selectedEntity,\* history: the feature whose click handler ran last
  call           \* a direct call of one pure function: name, arguments, result

vars == <<variant, pc, monthsMeta, regionsData, villesData, globalStats,
          currentMonth, regionsLayer, villesLayer, chart,
          sliderBound, monthLabel, legend, infoTitle, infoSubtitle, thrown,
          selectedEntity, call>>

-----------------------------------------------------------------------------
(* JavaScript values *)

Undefined == [t |-> "undefined"]
Null      == [t |-> "null"]
NaN       == [t |-> "NaN"]
PosInf    == [t |-> "Infinity"]
NegInf    == [t |-> "-Infinity"]
Str(s)    == [t |-> "string", s |-> s]

Abs(i) == IF i < 0 THEN -i ELSE i

RECURSIVE Gcd(_, _)
Gcd(a, b) == IF b = 0 THEN a ELSE Gcd(b, a % b)

\* the rational n/d in lowest terms, d > 0
Rat(n, d) ==
  IF d = 1 THEN [t |-> "num", n |-> n, d |-> 1]
  ELSE LET s == IF d < 0 THEN -1 ELSE 1
           g == Gcd(Abs(n), Abs(d))
       IN  [t |-> "num", n |-> (s * n) \div g, d |-> (s * d) \div g]

Num(i) == [t |-> "num", n |-> i, d |-> 1]

IsFinite(x) == x.t = "num"

\* -1, 0, 1: the sign of a number that is not NaN
Sign(x) ==
  CASE x.t = "Infinity"  -> 1
    [] x.t = "-Infinity" -> -1
    [] OTHER             -> IF x.n > 0 THEN 1 ELSE IF x.n < 0 THEN -1 ELSE 0

Inf(s) == IF s > 0 THEN PosInf ELSE NegInf

\* Number(v) for the values a property bag holds
ToNumber(v) ==
  CASE v.t = "undefined" -> NaN
    [] v.t = "null"      -> Num(0)
    [] v.t = "string"    -> IF v.s = "" THEN Num(0) ELSE NaN
    [] OTHER             -> v

isNaN(v) == ToNumber(v).t = "NaN"

\* !!v
Truthy(v) ==
  CASE v.t \in {"undefined", "null", "NaN"} -> FALSE
    [] v.t = "string"                        -> v.s # ""
    [] v.t = "num"                           -> v.n # 0
    [] OTHER                                 -> TRUE

\* a || b
OrElse(a, b) == IF Truthy(a) THEN a ELSE b

\* a || b where a ?? b stands: 0, NaN and "" fall to b as well
CoalesceFalsy(a, b) == OrElse(a, b)

\* a ?? b
Coalesce(a, b) == IF a.t \in {"undefined", "null"} THEN b ELSE a

Neg(x) ==
  CASE x.t = "NaN"       -> NaN
    [] x.t = "Infinity"  -> NegInf
    [] x.t = "-Infinity" -> PosInf
    [] OTHER             -> [x EXCEPT !.n = -x.n]

\* a + b
Add(a, b) ==
  CASE a.t = "NaN" \/ b.t = "NaN"   -> NaN
    [] IsFinite(a) /\ IsFinite(b)   -> Rat(a.n * b.d + b.n * a.d, a.d * b.d)
    [] IsFinite(a)                  -> b
    [] IsFinite(b)                  -> a
    [] OTHER                        -> IF a = b THEN a ELSE NaN

\* a - b
Sub(a, b) == Add(a, Neg(b))

\* a * b
Mul(a, b) ==
  CASE a.t = "NaN" \/ b.t = "NaN"   -> NaN
    [] IsFinite(a) /\ IsFinite(b)   -> Rat(a.n * b.n, a.d * b.d)
    [] OTHER                        ->
         IF Sign(a) * Sign(b) = 0 THEN NaN ELSE Inf(Sign(a) * Sign(b))

\* a / b
Div(a, b) ==
  CASE a.t = "NaN" \/ b.t = "NaN"   -> NaN
    [] IsFinite(a) /\ IsFinite(b)   ->
         IF b.n # 0 THEN Rat(a.n * b.d, a.d * b.n)
         ELSE IF a.n = 0 THEN NaN ELSE Inf(Sign(a))
    [] IsFinite(a)                  -> Num(0)
    [] IsFinite(b)                  ->
         IF Sign(b) < 0 THEN Inf(-Sign(a)) ELSE Inf(Sign(a))
    [] OTHER                        -> NaN

\* a < b (false when either is NaN)
Less(a, b) ==
  CASE a.t = "NaN" \/ b.t = "NaN"   -> FALSE
    [] IsFinite(a) /\ IsFinite(b)   -> a.n * b.d < b.n * a.d
    [] IsFinite(a)                  -> b.t = "Infinity"
    [] IsFinite(b)                  -> a.t = "-Infinity"
    [] OTHER                        -> a.t = "-Infinity" /\ b.t = "Infinity"

\* a <= b
Leq(a, b) == a.t # "NaN" /\ b.t # "NaN" /\ (a = b \/ Less(a, b))

\* Math.min(a, b), Math.max(a, b), Math.abs(x)
MathMin2(a, b) ==
  IF a.t = "NaN" \/ b.t = "NaN" THEN NaN ELSE IF Less(b, a) THEN b ELSE a

MathMax2(a, b) ==
  IF a.t = "NaN" \/ b.t = "NaN" THEN NaN ELSE IF Less(a, b) THEN b ELSE a

MathAbs(x) == IF x.t = "NaN" THEN NaN ELSE IF Sign(x) < 0 THEN Neg(x) ELSE x

\* Math.min(...vals), Math.max(...vals): Infinity and -Infinity on no argument
RECURSIVE MathMin(_)
MathMin(vals) ==
  IF vals = <<>> THEN PosInf ELSE MathMin2(Head(vals), MathMin(Tail(vals)))

RECURSIVE MathMax(_)
MathMax(vals) ==
  IF vals = <<>> THEN NegInf ELSE MathMax2(Head(vals), MathMax(Tail(vals)))

\* Math.round(x): the nearest integer, a half rounding up
MathRound(x) ==
  IF IsFinite(x) THEN Num((2 * x.n + x.d) \div (2 * x.d)) ELSE x

-----------------------------------------------------------------------------
(* Strings and numerals *)

\* s.padStart(n, pad), pad one character long
RECURSIVE padStart(_, _, _)
padStart(s, n, pad) == IF Len(s) >= n THEN s ELSE padStart(pad \o s, n, pad)

RECURSIVE Pow10(_)
Pow10(k) == IF k = 0 THEN 1 ELSE 10 * Pow10(k - 1)

\* x.toFixed(digits) as a numeral: "NaN", "Infinity" or "-Infinity", or else
\* the sign ("-" when x < 0, also in front of a zero: "-0", "-0.0"), the
\* digits of |x| rounded to `digits` decimals (a tie taking the larger
\* numeral) read as one integer, and the number of decimals
toFixed(x, digits) ==
  IF ~IsFinite(x) THEN [text |-> x.t]
  ELSE [neg    |-> x.n < 0,
        n      |-> (2 * Abs(x.n) * Pow10(digits) + x.d) \div (2 * x.d),
        digits |-> digits]

-----------------------------------------------------------------------------
(* The scripts' functions.  A function that reads a module variable takes it
   as a parameter, so that an action can pass the value just assigned. *)

NumMonths == 12

Variants == {"temp", "precip"}

\* the prefix of the month fields: `temp_${..}` and `precip_${..}`
Prefix == IF variant = "temp" THEN "temp_" ELSE "precip_"

\* String(x) of a number
JsString(x) == IF IsFinite(x) /\ x.d = 1 THEN ToString(x.n) ELSE x.t

getMonthPropertyName(month) == Prefix \o padStart(JsString(month), 2, "0")

\* obj[key]
Get(obj, key) == IF key \in DOMAIN obj THEN obj[key] ELSE Undefined

getRegionValue(feature, month) ==
  Get(feature.properties, getMonthPropertyName(month))

\* the inner loop without the test v !== null: Number(null) is a sample
RECURSIVE MonthValsNoNullCheck(_, _)
MonthValsNoNullCheck(f, m) ==
  IF m > NumMonths THEN <<>>
  ELSE LET v == getRegionValue(f, Num(m))
       IN  (IF v # Undefined /\ ~isNaN(v)
            THEN <<ToNumber(v)>> ELSE <<>>) \o MonthValsNoNullCheck(f, m + 1)

\* the inner loop of calcGlobalMinMax, from month m on
RECURSIVE MonthVals(_, _)
MonthVals(f, m) ==
  IF m > NumMonths THEN <<>>
  ELSE LET v == getRegionValue(f, Num(m))
       IN  (IF v # Null /\ v # Undefined /\ ~isNaN(v)
            THEN <<ToNumber(v)>> ELSE <<>>) \o MonthVals(f, m + 1)

\* geojson.features.forEach(...)
RECURSIVE CollectVals(_)
CollectVals(features) ==
  IF features = <<>> THEN <<>>
  ELSE MonthVals(Head(features), 1) \o CollectVals(Tail(features))

calcGlobalMinMax(geojson) ==
  LET vals == CollectVals(geojson.features)
  IN  [min |-> MathMin(vals), max |-> MathMax(vals)]

Neutral == [css |-> "#f0f0f0"]
Rgb(r, g, b) == [css |-> "rgb", r |-> r, g |-> g, b |-> b]

\* the position counted from max instead of min
ClampedInverted(v, min, max) ==
  LET t == Div(Sub(max, ToNumber(v)), OrElse(Sub(max, min), Num(1)))
  IN  MathMax2(Num(0), MathMin2(Num(1), t))

\* the clamped position of v in [min, max]: lines 94-95 of getColorTemp
Clamped(v, min, max) ==
  LET t == Div(Sub(ToNumber(v), min), OrElse(Sub(max, min), Num(1)))
  IN  MathMax2(Num(0), MathMin2(Num(1), t))

\* temperature page: blue -> red
getColorTemp(v, min, max) ==
  IF v = Null \/ v = Undefined \/ isNaN(v) THEN Neutral
  ELSE LET s == Clamped(v, min, max)
           r == MathRound(Mul(Num(255), s))
           g == MathRound(Mul(Num(255),
                  Sub(Num(1), Mul(MathAbs(Sub(s, Rat(1, 2))), Num(2)))))
           b == MathRound(Mul(Num(255), Sub(Num(1), s)))
       IN  Rgb(r, g, b)

\* precipitation page: white -> blue
getColor(v, min, max) ==
  IF v = Null \/ v = Undefined \/ isNaN(v) THEN Neutral
  ELSE LET s == Clamped(v, min, max)
           r == MathRound(Mul(Num(255), Sub(Num(1), s)))
           g == MathRound(Mul(Num(255), Sub(Num(1), s)))
           b == Num(255)
       IN  Rgb(r, g, b)

\* the colour mapper of the running script
ColorMapper(v, min, max) ==
  IF variant = "temp" THEN getColorTemp(v, min, max) ELSE getColor(v, min, max)

\* regionStyle reads currentMonth and globalStats
regionStyle(feature, month, stats) ==
  [fillColor   |-> ColorMapper(getRegionValue(feature, month), stats.min, stats.max),
   color       |-> IF variant = "temp" THEN "#555" ELSE "#555555",
   weight      |-> 1,
   fillOpacity |-> "0.7"]

getMonthlySeries(props) ==
  [m \in 1..NumMonths |-> Coalesce(Get(props, getMonthPropertyName(Num(m))), Null)]

\* the legend's label: v.toFixed(1) and v.toFixed(0)
LegendDigits == IF variant = "temp" THEN 1 ELSE 0

LegendSteps == 5

\* v of the i-th pass of updateLegend's loop
LegendValue(stats, i) ==
  Add(stats.min, Mul(Div(Num(i), Num(LegendSteps)), Sub(stats.max, stats.min)))

\* the item of the i-th pass: its colour box and its label, with the v they
\* are made from
LegendItem(stats, i) ==
  LET v == LegendValue(stats, i)
  IN  [value |-> v,
       color |-> ColorMapper(v, stats.min, stats.max),
       label |-> toFixed(v, LegendDigits)]

\* the children of #legend-scale after updateLegend(): emptied by
\* innerHTML = "", then one item appended for each i = 0..steps
updateLegend(stats, legendDiv) ==
  IF stats = Null THEN legendDiv
  ELSE [k \in 1..(LegendSteps + 1) |-> LegendItem(stats, k - 1)]

\* arr[i] for a number i, counted from 0
JsIndex(arr, i) ==
  IF IsFinite(i) /\ i.d = 1 /\ i.n + 1 \in 1..Len(arr)
  THEN arr[i.n + 1] ELSE Undefined

\* parseInt(s) of a string of decimal digits
parseInt(s) ==
  LET ns == {n \in 0..(Pow10(Len(s)) - 1) : ToString(n) = s}
  IN  IF ns = {} THEN NaN ELSE Num(CHOOSE n \in ns : TRUE)

\* the options of new Chart(ctx, {...}): labels, the dataset's data and label
initChart(meta) ==
  [labels |-> meta.labels,
   data   |-> <<>>,
   label  |-> Str(IF variant = "temp" THEN "Température (°C)"
                  ELSE "Précipitations (mm)")]

\* the data replaced, the dataset's label left as it was
updateChartKeepsLabel(ch, title, data) ==
  IF ch = Undefined THEN ch ELSE [ch EXCEPT !.data = data]

\* updateChart reads chart
updateChart(ch, title, data) ==
  IF ch = Undefined THEN ch ELSE [ch EXCEPT !.data = data, !.label = title]

\* the style function with the month it was first called for
StyleAllJanuary(geojson, month, stats) ==
  [styles |-> [i \in 1..Len(geojson.features) |->
                 regionStyle(geojson.features[i], Num(1), stats)]]

\* L.geoJSON(regionsData, {style}) and regionsLayer.setStyle(style): the style
\* function is called once per feature
StyleAll(geojson, month, stats) ==
  [styles |-> [i \in 1..Len(geojson.features) |->
                 regionStyle(geojson.features[i], month, stats)]]

-----------------------------------------------------------------------------
(* What the server and the page give the script *)

MaxFeatures == 2

\* /api/mois
ApiMois ==
  [labels |-> [i \in 1..NumMonths |->
                 Str(<<"Janvier", "Février", "Mars", "Avril", "Mai", "Juin",
                       "Juillet", "Août", "Septembre", "Octobre", "Novembre",
                       "Décembre">>[i])]]

\* <input type="range" id="monthRange">: the values the user can set
SliderRange == 1..NumMonths

MonthField(m, v) == getMonthPropertyName(Num(m)) :> v

\* property bags of regions: three months of a year, one value negative; a
\* full year of one fractional value; a null field under an empty name
RegionProps ==
  { ("nom_region" :> Str("Souss-Massa")) @@ MonthField(1, Num(2))
       @@ MonthField(6, Num(5)) @@ MonthField(12, Num(-1)),
    [k \in {getMonthPropertyName(Num(m)) : m \in 1..NumMonths} |-> Rat(53, 10)]
       @@ ("nom_region" :> Str("Oriental")),
    ("nom_region" :> Str("")) @@ MonthField(1, Null) }

\* property bags of cities, in the order the server lists them
VilleProps ==
  << ("nom_ville" :> Str("Agadir")) @@ MonthField(1, Num(0))
        @@ MonthField(12, Num(7)),
     MonthField(6, Null) >>

Feature(props) == [properties |-> props]

\* the feature collections of up to n features over a set of property bags
Collections(bags, n) ==
  { [features |-> fs] :
      fs \in UNION {[1..k -> {Feature(b) : b \in bags}] : k \in 0..n} }

\* /api/temp/regions, /api/regions
ApiRegions == Collections(RegionProps, MaxFeatures)

\* /api/villes: the first k cities
ApiVilles ==
  { [features |-> [i \in 1..k |-> Feature(VilleProps[i])]] :
      k \in 0..(IF MaxFeatures < Len(VilleProps) THEN MaxFeatures
                ELSE Len(VilleProps)) }

-----------------------------------------------------------------------------
(* The page: the async DOMContentLoaded handler and the event handlers *)

NoCall == [fn |-> "none"]
NoEntity == [kind |-> "none"]

Init ==
  /\ variant \in Variants
  /\ pc = "start"
  /\ monthsMeta = Undefined
  /\ regionsData = Undefined
  /\ villesData = Undefined
  /\ globalStats = Null
  /\ currentMonth = Num(1)
  /\ regionsLayer = Undefined
  /\ villesLayer = Undefined
  /\ chart = Undefined
  /\ sliderBound = FALSE
  /\ monthLabel = Str("")
  /\ legend = <<>>
  /\ infoTitle = Str("")
  /\ infoSubtitle = Str("")
  /\ thrown = "none"
  /\ selectedEntity = NoEntity
  /\ call = NoCall

\* the handler without its await: initMap suspends at its first fetch and
\* initSlider runs at once, binds the listener and reads monthsMeta.labels
DOMContentLoadedNoAwait ==
  /\ pc = "start"
  /\ pc' = "awaitMois"
  /\ sliderBound' = TRUE
  /\ thrown' = "TypeError"
  /\ UNCHANGED <<variant, monthsMeta, regionsData, villesData, globalStats,
                 currentMonth, regionsLayer, villesLayer, chart,
                 monthLabel, legend, infoTitle, infoSubtitle,
                 selectedEntity, call>>

\* DOMContentLoaded: the handler calls initMap, which creates the map and
\* suspends at the fetch of /api/mois
DOMContentLoaded ==
  /\ pc = "start"
  /\ pc' = "awaitMois"
  /\ UNCHANGED <<variant, monthsMeta, regionsData, villesData, globalStats,
                 currentMonth, regionsLayer, villesLayer, chart,
                 sliderBound, monthLabel, legend, infoTitle, infoSubtitle,
                 thrown, selectedEntity, call>>

\* monthsMeta = await (await fetch("/api/mois")).json(), then the fetch of
\* the regions
MoisFetched ==
  /\ pc = "awaitMois"
  /\ monthsMeta' = ApiMois
  /\ pc' = "awaitRegions"
  /\ UNCHANGED <<variant, regionsData, villesData, globalStats,
                 currentMonth, regionsLayer, villesLayer, chart,
                 sliderBound, monthLabel, legend, infoTitle, infoSubtitle,
                 thrown, selectedEntity, call>>

\* the rest of initMap after its last await, and then, in the same task, the
\* rest of the DOMContentLoaded handler: initSlider, initChart, updateLegend
LoadTail(rd, vd) ==
  LET stats == calcGlobalMinMax(rd)
  IN  /\ globalStats' = stats
      /\ regionsLayer' = StyleAll(rd, currentMonth, stats)
      /\ villesLayer' = IF variant = "precip"
                        THEN [markers |-> Len(vd.features)] ELSE Undefined
      /\ sliderBound' = TRUE
      /\ monthLabel' = JsIndex(monthsMeta.labels, Sub(currentMonth, Num(1)))
      /\ chart' = initChart(monthsMeta)
      /\ legend' = updateLegend(stats, legend)
      /\ pc' = "ready"

\* regionsData = await (await fetch(<regions>)).json()
RegionsFetched ==
  /\ pc = "awaitRegions"
  /\ \E data \in ApiRegions :
       /\ regionsData' = data
       /\ IF variant = "temp"
          THEN LoadTail(data, Undefined) /\ UNCHANGED villesData
          ELSE /\ pc' = "awaitVilles"
               /\ UNCHANGED <<villesData, globalStats, regionsLayer,
                              villesLayer, sliderBound, monthLabel, chart,
                              legend>>
  /\ UNCHANGED <<variant, monthsMeta, currentMonth, infoTitle,
                 infoSubtitle, thrown, selectedEntity, call>>

\* villesData = await (await fetch("/api/villes")).json()
VillesFetched ==
  /\ pc = "awaitVilles"
  /\ \E data \in ApiVilles :
       /\ villesData' = data
       /\ LoadTail(regionsData, data)
  /\ UNCHANGED <<variant, monthsMeta, regionsData, currentMonth,
                 infoTitle, infoSubtitle, thrown, selectedEntity, call>>

\* a fetch rejects: initMap rejects, and the handler with it
FetchFailed ==
  /\ pc \in {"awaitMois", "awaitRegions", "awaitVilles"}
  /\ pc' = "failed"
  /\ UNCHANGED <<variant, monthsMeta, regionsData, villesData, globalStats,
                 currentMonth, regionsLayer, villesLayer, chart,
                 sliderBound, monthLabel, legend, infoTitle, infoSubtitle,
                 thrown, selectedEntity, call>>

\* the "input" listener of #monthRange (initSlider), after the assignment of
\* currentMonth; an exception ends the handler where it is raised
SliderListener(month) ==
  IF monthsMeta = Undefined
  THEN /\ thrown' = "TypeError"
       /\ UNCHANGED <<monthLabel, regionsLayer, legend>>
  ELSE /\ monthLabel' = JsIndex(monthsMeta.labels, Sub(month, Num(1)))
       /\ IF \/ regionsLayer = Undefined
             \/ (globalStats = Null /\ regionsData.features # <<>>)
          THEN /\ thrown' = "TypeError"
               /\ UNCHANGED <<regionsLayer, legend>>
          ELSE /\ regionsLayer' = StyleAll(regionsData, month, globalStats)
               /\ legend' = updateLegend(globalStats, legend)
               /\ UNCHANGED thrown

\* a listener that computes the range anew for every month it shows
SliderInputRecomputes(v) ==
  /\ IF sliderBound
     THEN /\ currentMonth' = parseInt(ToString(v))
          /\ globalStats' =
               LET vals == {getRegionValue(regionsData.features[i], currentMonth') :
                              i \in DOMAIN regionsData.features}
                   nums == {x \in vals : x.t = "num"}
               IN  IF nums = {} THEN globalStats
                   ELSE [min |-> CHOOSE x \in nums : \A y \in nums : Leq(x, y),
                         max |-> CHOOSE x \in nums : \A y \in nums : Leq(y, x)]
          /\ SliderListener(currentMonth')
     ELSE UNCHANGED <<currentMonth, globalStats, monthLabel, regionsLayer,
                      legend, thrown>>
  /\ UNCHANGED <<variant, pc, monthsMeta, regionsData, villesData,
                 villesLayer, chart, sliderBound, infoTitle,
                 infoSubtitle, selectedEntity, call>>

\* a listener that counts the months from 0
SliderInputZeroBased(v) ==
  /\ IF sliderBound
     THEN /\ currentMonth' = Sub(parseInt(ToString(v)), Num(1))
          /\ SliderListener(currentMonth')
     ELSE UNCHANGED <<currentMonth, monthLabel, regionsLayer, legend, thrown>>
  /\ UNCHANGED <<variant, pc, monthsMeta, regionsData, villesData,
                 globalStats, villesLayer, chart, sliderBound, infoTitle,
                 infoSubtitle, selectedEntity, call>>

\* the user moves the slider to v: the browser sets slider.value to the
\* string of v and dispatches "input" to the listener, if there is one
SliderInput(v) ==
  /\ IF sliderBound
     THEN /\ currentMonth' = parseInt(ToString(v))
          /\ SliderListener(currentMonth')
     ELSE UNCHANGED <<currentMonth, monthLabel, regionsLayer, legend, thrown>>
  /\ UNCHANGED <<variant, pc, monthsMeta, regionsData, villesData,
                 globalStats, villesLayer, chart, sliderBound, infoTitle,
                 infoSubtitle, selectedEntity, call>>

\* onRegionClick / onVilleClick: the title, the subtitle and the chart
EntityClick(props, nameField, defaultName) ==
  LET title == OrElse(Get(props, nameField), Str(defaultName))
      data  == getMonthlySeries(props)
  IN  /\ infoTitle' = title
      /\ infoSubtitle' = Str(IF variant = "temp"
                             THEN "Température moyenne mensuelle (°C)"
                             ELSE "Précipitations mensuelles (mm)")
      /\ chart' = updateChart(chart, title, data)

\* the user clicks the i-th region of regionsLayer
onRegionClick(i) ==
  /\ regionsLayer # Undefined
  /\ i \in 1..Len(regionsData.features)
  /\ EntityClick(regionsData.features[i].properties, "nom_region", "Région")
  /\ selectedEntity' = [kind |-> "region", index |-> i]
  /\ UNCHANGED <<variant, pc, monthsMeta, regionsData, villesData,
                 globalStats, currentMonth, regionsLayer, villesLayer,
                 sliderBound, monthLabel, legend, thrown, call>>

\* the user clicks the i-th marker of villesLayer
onVilleClick(i) ==
  /\ villesLayer # Undefined
  /\ i \in 1..Len(villesData.features)
  /\ EntityClick(villesData.features[i].properties, "nom_ville", "Ville")
  /\ selectedEntity' = [kind |-> "ville", index |-> i]
  /\ UNCHANGED <<variant, pc, monthsMeta, regionsData, villesData,
                 globalStats, currentMonth, regionsLayer, villesLayer,
                 sliderBound, monthLabel, legend, thrown, call>>

Next ==
  \/ DOMContentLoaded
  \/ MoisFetched
  \/ RegionsFetched
  \/ VillesFetched
  \/ FetchFailed
  \/ \E v \in SliderRange : SliderInput(v)
  \/ \E i \in 1..MaxFeatures : onRegionClick(i)
  \/ \E i \in 1..MaxFeatures : onVilleClick(i)

Spec == Init /\ [][Next]_vars

-----------------------------------------------------------------------------
(* Direct calls of the pure functions, one per behaviour *)

MaxVal == 1
MaxColor == 4

\* what a month field can hold; undefined stands for a field that is not set
FieldVals == {Undefined, Null, NaN} \cup {Num(i) : i \in (-1)..MaxVal}

\* the property bag that holds c[m] in the field of month m
BagOf(c) ==
  LET ms == {m \in DOMAIN c : c[m] # Undefined}
  IN  [k \in {getMonthPropertyName(Num(m)) : m \in ms} |->
         c[CHOOSE m \in ms : getMonthPropertyName(Num(m)) = k]]

AllBags(months) == {BagOf(c) : c \in [months -> FieldVals]}

ColorNums == {Num(i) : i \in -MaxColor..MaxColor}

\* the ranges a colour is mapped in: any two numbers, and the range that
\* calcGlobalMinMax returns for no sample
ColorRanges ==
  {[min |-> a, max |-> b] : a, b \in ColorNums}
    \cup {[min |-> PosInf, max |-> NegInf]}

CallCalcGlobalMinMax ==
  /\ call = NoCall
  /\ \E geojson \in Collections(AllBags({1, NumMonths}), MaxFeatures) :
       call' = [fn |-> "calcGlobalMinMax", geojson |-> geojson,
                ret |-> calcGlobalMinMax(geojson)]
  /\ UNCHANGED <<variant, pc, monthsMeta, regionsData, villesData,
                 globalStats, currentMonth, regionsLayer, villesLayer, chart,
                 sliderBound, monthLabel, legend, infoTitle, infoSubtitle,
                 thrown, selectedEntity>>

CallColorMapper ==
  /\ call = NoCall
  /\ \E v \in {Undefined, Null, NaN} \cup ColorNums, range \in ColorRanges :
       call' = [fn |-> "ColorMapper", v |-> v, min |-> range.min,
                max |-> range.max,
                ret |-> ColorMapper(v, range.min, range.max)]
  /\ UNCHANGED <<variant, pc, monthsMeta, regionsData, villesData,
                 globalStats, currentMonth, regionsLayer, villesLayer, chart,
                 sliderBound, monthLabel, legend, infoTitle, infoSubtitle,
                 thrown, selectedEntity>>

\* the colours of two values and of the two ends of one range
CallColorMapperInRange ==
  /\ call = NoCall
  /\ \E v1, v2, min, max \in ColorNums :
       call' = [fn |-> "ColorMapper in range", v1 |-> v1, v2 |-> v2,
                min |-> min, max |-> max,
                ret1   |-> ColorMapper(v1, min, max),
                ret2   |-> ColorMapper(v2, min, max),
                retMin |-> ColorMapper(min, min, max),
                retMax |-> ColorMapper(max, min, max)]
  /\ UNCHANGED <<variant, pc, monthsMeta, regionsData, villesData,
                 globalStats, currentMonth, regionsLayer, villesLayer, chart,
                 sliderBound, monthLabel, legend, infoTitle, infoSubtitle,
                 thrown, selectedEntity>>

CallGetMonthlySeries ==
  /\ call = NoCall
  /\ \E props \in AllBags({1, 6, NumMonths}) :
       call' = [fn |-> "getMonthlySeries", props |-> props,
                ret |-> getMonthlySeries(props)]
  /\ UNCHANGED <<variant, pc, monthsMeta, regionsData, villesData,
                 globalStats, currentMonth, regionsLayer, villesLayer, chart,
                 sliderBound, monthLabel, legend, infoTitle, infoSubtitle,
                 thrown, selectedEntity>>

NextPure ==
  \/ CallCalcGlobalMinMax
  \/ CallColorMapper
  \/ CallColorMapperInRange
  \/ CallGetMonthlySeries

SpecPure == Init /\ [][NextPure]_vars

-----------------------------------------------------------------------------
(* Properties *)

\* the month fields by the naming convention: the prefix and two digits
MonthKey(m) ==
  Prefix \o <<"01", "02", "03", "04", "05", "06",
              "07", "08", "09", "10", "11", "12">>[m]

\* the present numeric values of a collection, over all features and months
Samples(geojson) ==
  { f.properties[MonthKey(m)] :
      <<f, m>> \in { fm \in {geojson.features[i] : i \in DOMAIN geojson.features}
                              \X (1..12) :
                       /\ MonthKey(fm[2]) \in DOMAIN fm[1].properties
                       /\ fm[1].properties[MonthKey(fm[2])].t = "num" } }

\* C1: on a collection with a numeric sample, calcGlobalMinMax returns the
\* least and the greatest of the present numeric values over all features
\* and months (absent, null and NaN entries ignored), hence min <= max
C1_RangeOfSamples ==
  (call.fn = "calcGlobalMinMax" /\ Samples(call.geojson) # {}) =>
    /\ call.ret.min \in Samples(call.geojson)
    /\ call.ret.max \in Samples(call.geojson)
    /\ \A x \in Samples(call.geojson) :
         Leq(call.ret.min, x) /\ Leq(x, call.ret.max)
    /\ Leq(call.ret.min, call.ret.max)

\* two features; the minimum is a December value of the second, the maximum
\* a January value of the first, and a null and a NaN entry are passed over
C1_Witness ==
  /\ call.fn = "calcGlobalMinMax"
  /\ Len(call.geojson.features) = 2
  /\ Get(call.geojson.features[1].properties, MonthKey(1)) = Num(1)
  /\ Get(call.geojson.features[1].properties, MonthKey(12)) = Null
  /\ Get(call.geojson.features[2].properties, MonthKey(1)) = NaN
  /\ Get(call.geojson.features[2].properties, MonthKey(12)) = Num(-1)
  /\ call.ret = [min |-> Num(-1), max |-> Num(1)]

IsChannel(x) == IsFinite(x) /\ x.d = 1 /\ x.n \in 0..255

\* C2: the colour mapper returns the neutral colour for an absent, null or
\* NaN value and otherwise an rgb colour with channels in 0..255, for every
\* range, the one of a collection without samples included
C2_ColorMapperTotal ==
  call.fn = "ColorMapper" =>
    IF call.v \in {Undefined, Null, NaN}
    THEN call.ret = Neutral
    ELSE /\ call.ret.css = "rgb"
         /\ IsChannel(call.ret.r) /\ IsChannel(call.ret.g)
         /\ IsChannel(call.ret.b)

\* C6: getMonthlySeries returns 12 entries in month order: the stored value
\* of the month's field, or null where the field is missing or null
C6_SeriesOfTwelve ==
  call.fn = "getMonthlySeries" =>
    /\ DOMAIN call.ret = 1..12
    /\ \A m \in 1..12 :
         call.ret[m] =
           IF /\ MonthKey(m) \in DOMAIN call.props
              /\ call.props[MonthKey(m)] # Null
              /\ call.props[MonthKey(m)] # Undefined
           THEN call.props[MonthKey(m)] ELSE Null

\* only months 1, 6 and 12 populated, one of them with 0
C6_Witness ==
  /\ call.fn = "getMonthlySeries"
  /\ call.ret[1] = Num(0) /\ call.ret[6] = Num(1) /\ call.ret[12] = Num(-1)
  /\ \A m \in (1..12) \ {1, 6, 12} : call.ret[m] = Null

\* C9: for min < v1 < v2 < max the channels move one way from the colour of
\* v1 to that of v2 (temperature: red up, blue down; precipitation: red and
\* green down, blue 255), and the colours of min and of max are the two
\* distinct ends of the gradient
C9_Monotonic ==
  (call.fn = "ColorMapper in range" /\ Less(call.min, call.max)) =>
    /\ call.retMin = IF variant = "temp" THEN Rgb(Num(0), Num(0), Num(255))
                     ELSE Rgb(Num(255), Num(255), Num(255))
    /\ call.retMax = IF variant = "temp" THEN Rgb(Num(255), Num(0), Num(0))
                     ELSE Rgb(Num(0), Num(0), Num(255))
    /\ (Less(call.min, call.v1) /\ Less(call.v1, call.v2)
          /\ Less(call.v2, call.max)) =>
         IF variant = "temp"
         THEN /\ Leq(call.ret1.r, call.ret2.r)
              /\ Leq(call.ret2.b, call.ret1.b)
         ELSE /\ Leq(call.ret2.r, call.ret1.r)
              /\ Leq(call.ret2.g, call.ret1.g)
              /\ call.ret1.b = Num(255) /\ call.ret2.b = Num(255)

\* two values inside a range, on either side of its middle, whose colours
\* differ
C9_Witness ==
  /\ call.fn = "ColorMapper in range"
  /\ Less(call.min, call.v1) /\ Less(call.v1, call.v2)
  /\ Less(call.v2, call.max)
  /\ Less(Add(call.v1, call.v1), Add(call.min, call.max))
  /\ Less(Add(call.min, call.max), Add(call.v2, call.v2))
  /\ Less(call.ret1.r, call.ret2.r) \/ Less(call.ret2.r, call.ret1.r)

\* the load has completed and the handlers are in place
Loaded == pc = "ready"

\* C3: globalStats is written once, by the load, after the regions have been
\* fetched, with the range of the fetched collection; no slider move and no
\* click changes it afterwards
C3_StatsWrittenOnce ==
  /\ [](Loaded => globalStats = calcGlobalMinMax(regionsData))
  /\ [][globalStats' # globalStats =>
          /\ globalStats = Null
          /\ ~Loaded /\ Loaded'
          /\ regionsData' # Undefined
          /\ globalStats' = calcGlobalMinMax(regionsData')]_vars

\* the slider has gone to July and a region has been clicked, and the range
\* is still the one of the load
C3_Witness ==
  /\ Loaded
  /\ currentMonth = Num(7)
  /\ selectedEntity.kind = "region"
  /\ globalStats = [min |-> Num(-1), max |-> Rat(53, 10)]

\* C4: once the regions are drawn, every region's fill colour is the colour
\* mapper's colour of the region's value of the current month in the range
\* computed at load; none is left from an earlier month
C4_FillOfCurrentMonth ==
  regionsLayer # Undefined =>
    /\ globalStats = calcGlobalMinMax(regionsData)
    /\ DOMAIN regionsLayer.styles = DOMAIN regionsData.features
    /\ \A i \in DOMAIN regionsData.features :
         regionsLayer.styles[i].fillColor =
           ColorMapper(Get(regionsData.features[i].properties,
                           MonthKey(currentMonth.n)),
                       globalStats.min, globalStats.max)

\* December after a slider move: a region whose colour is not the colour of
\* its January value, beside a region without a December value
C4_Witness ==
  /\ Loaded
  /\ currentMonth = Num(12)
  /\ Len(regionsLayer.styles) = 2
  /\ regionsLayer.styles[1].fillColor.css = "rgb"
  /\ regionsLayer.styles[1].fillColor #
       ColorMapper(Get(regionsData.features[1].properties, MonthKey(1)),
                   globalStats.min, globalStats.max)
  /\ regionsLayer.styles[2].fillColor = Neutral

EvenlySpaced(stats, i) ==
  Add(stats.min, Div(Mul(Num(i), Sub(stats.max, stats.min)), Num(5)))

\* C7: after the load the legend holds exactly 6 entries, in ascending order
\* of value, the i-th value being min + i*(max-min)/5, the first min and the
\* last max, each with the colour mapper's colour of its value
C7_LegendEvenlySpaced ==
  Loaded =>
    /\ Len(legend) = 6
    /\ \A i \in 0..5 :
         /\ legend[i + 1].value = EvenlySpaced(globalStats, i)
         /\ legend[i + 1].color =
              ColorMapper(legend[i + 1].value, globalStats.min, globalStats.max)
    /\ legend[1].value = globalStats.min
    /\ legend[6].value = globalStats.max
    /\ \A i, j \in 1..6 : i < j => Leq(legend[i].value, legend[j].value)

\* C8: the regions are styled, and the slider and click handlers exist, only
\* once the month metadata and the collections are fetched and globalStats
\* is assigned; the chart exists only with the metadata; no handler raises
C8_LoadOrdering ==
  /\ thrown = "none"
  /\ (regionsLayer # Undefined \/ villesLayer # Undefined
        \/ sliderBound \/ chart # Undefined) =>
       /\ monthsMeta # Undefined
       /\ regionsData # Undefined
       /\ variant = "precip" => villesData # Undefined
       /\ globalStats # Null
       /\ regionsLayer # Undefined
  /\ chart # Undefined => chart.labels = monthsMeta.labels

\* handlers have run after the load: the slider moved, an entity was clicked
C8_Witness ==
  /\ Loaded
  /\ thrown = "none"
  /\ currentMonth = Num(3)
  /\ monthLabel = Str("Mars")
  /\ selectedEntity # NoEntity
  /\ Len(regionsLayer.styles) > 0

\* the property bag of the last-clicked entity
SelectedProps ==
  IF selectedEntity.kind = "region"
  THEN regionsData.features[selectedEntity.index].properties
  ELSE villesData.features[selectedEntity.index].properties

SelectedName ==
  LET field == IF selectedEntity.kind = "region" THEN "nom_region"
               ELSE "nom_ville"
      name  == IF field \in DOMAIN SelectedProps THEN SelectedProps[field]
               ELSE Undefined
  IN  IF name = Undefined \/ name = Str("")
      THEN Str(IF selectedEntity.kind = "region" THEN "Région" ELSE "Ville")
      ELSE name

\* C10: the chart shows the monthly series and the name (or default name) of
\* the last-clicked entity, and the empty series while nothing was clicked;
\* a slider move changes neither the chart nor the selection, and a click
\* changes neither currentMonth nor a fill colour
C10_ChartOfLastClicked ==
  /\ [](Loaded =>
          IF selectedEntity = NoEntity
          THEN chart.data = <<>>
          ELSE /\ chart.data = getMonthlySeries(SelectedProps)
               /\ chart.label = SelectedName
               /\ infoTitle = SelectedName)
  /\ [][(Loaded /\ (currentMonth' # currentMonth \/ monthLabel' # monthLabel
                      \/ regionsLayer' # regionsLayer)) =>
          (chart' = chart /\ selectedEntity' = selectedEntity
             /\ infoTitle' = infoTitle)]_vars
  /\ [][(Loaded /\ (chart' # chart \/ selectedEntity' # selectedEntity)) =>
          (currentMonth' = currentMonth /\ regionsLayer' = regionsLayer
             /\ legend' = legend)]_vars

\* a region was clicked, then the first city, then the slider moved
C10_Witness ==
  /\ Loaded
  /\ selectedEntity = [kind |-> "ville", index |-> 1]
  /\ chart.label = Str("Agadir")
  /\ chart.data[1] = Num(0) /\ chart.data[6] = Null /\ chart.data[12] = Num(7)
  /\ currentMonth = Num(7)

====
